---- MODULE Spec2Model ----
(***************************************************************************)
(* CodePilot: the FAISS vector store (vector_db/faiss_store.py) with its   *)
(* two persisted artifacts, and the retriever (engine/retriever.py) that   *)
(* turns search hits into displayable results.                             *)
(*                                                                         *)
(* A vector of dimension d is modelled by its two leading components;  *)
(* all further components are zero, so squared L2 distances are exact.     *)
(* Slots are 0-based as in the code; TLA+ sequences are 1-based, so slot i *)
(* is element i + 1.                                                       *)
(***************************************************************************)
EXTENDS Integers, Sequences, FiniteSets, TLC

\* ------------------------------------------------------------------ bounds
MaxSlots == 2      \* cap on len(metadata) and index.ntotal
MaxAdd == 2        \* documents handed to one add_documents call
MaxK == 2          \* top_k ranges over 1..MaxK
MaxFaults == 2     \* failed disk writes in one run of the model
MaxHits == 2       \* hits handed to one _enrich_results call
MaxFiles == 3      \* files os.walk finds under the scanned directory

\* --------------------------------------------------------------- constants
VECTOR_DIMENSION == 768   \* also the default of FaissVectorStore.__init__(dimension=768)
TOP_K == 5
CHUNK_SIZE == 1000
CHUNK_OVERLAP == 200

\* A second embedding width, for callers whose model is not the configured one.
OtherDimension == VECTOR_DIMENSION \div 2
Dims == {VECTOR_DIMENSION, OtherDimension}

\* --------------------------------------------------------------------- text
\* A text is held as the tuple of its lines (text.split('\n')); the characters
\* of a line are those of the TLA+ string.
Whitespace == {" ", "\t", "\n", "\r"}

\* s.startswith(p)
StartsWith(s, p) == Len(s) >= Len(p) /\ SubSeq(s, 1, Len(p)) = p

\* s.lstrip()
RECURSIVE lstrip(_)
lstrip(s) ==
    IF Len(s) > 0 /\ SubSeq(s, 1, 1) \in Whitespace
    THEN lstrip(SubSeq(s, 2, Len(s))) ELSE s

\* ' ' * n
RECURSIVE Spaces(_)
Spaces(n) == IF n <= 0 THEN "" ELSE " " \o Spaces(n - 1)

\* sep.join(parts)
RECURSIVE JoinWith(_, _)
JoinWith(parts, sep) ==
    IF Len(parts) = 0 THEN ""
    ELSE IF Len(parts) = 1 THEN parts[1]
    ELSE parts[1] \o sep \o JoinWith(Tail(parts), sep)

\* s.split(sep)
RECURSIVE Split(_, _)
Split(s, sep) ==
    LET at == {i \in 1..(Len(s) - Len(sep) + 1) :
                  SubSeq(s, i, i + Len(sep) - 1) = sep} IN
    IF at = {} THEN <<s>>
    ELSE LET i == CHOOSE i \in at : \A j \in at : i <= j IN
         <<SubSeq(s, 1, i - 1)>> \o Split(SubSeq(s, i + Len(sep), Len(s)), sep)

\* The string a tuple of lines stands for, and back.
TextOf(lines) == JoinWith(lines, "\n")
LinesOf(s) == Split(s, "\n")
\* len(content)
TextLen(lines) == Len(TextOf(lines))

Slice(s, a, b) == [i \in 1..(IF b >= a THEN b - a + 1 ELSE 0) |-> s[a + i - 1]]

\* ------------------------------------------------------------ source corpus
\* The files under the scanned directory, named by their path below it.
\*   a.py, c.py, k.py parse; b.py does not (SyntaxError); d.py is not UTF-8;
\*   venv/e.py sits in a virtual environment; notes.txt is no Python file.
FileLines(file_path) ==
    CASE file_path = "a.py" -> <<"class A:", "    x = 1", "    y = 2">>
      [] file_path = "b.py" -> <<"def broken(:">>
      [] file_path = "c.py" -> <<"import os",
                                 "def f(a, b):",
                                 "    from . import x",
                                 "    import os.path",
                                 "    from os import sep",
                                 "    def g():",
                                 "        pass",
                                 "    if a:",
                                 "        return g(sep.join(b))",
                                 "if os:",
                                 "    def h():",
                                 "        pass",
                                 "async def co():",
                                 "    pass">>
      [] file_path = "k.py" -> <<"class K(A):",
                                 "    \"\"\"doc\"\"\"",
                                 "    @staticmethod",
                                 "    def m():",
                                 "        pass",
                                 "    class N:",
                                 "        pass">>
      [] file_path = "venv/e.py" -> <<"def e():", "    pass">>
      [] file_path = "notes.txt" -> <<"notes">>
      [] OTHER -> <<>>

\* What os.walk yields: the directory of a file below the scanned one (as path
\* segments) and the file's name.
WalkEntry(root, file) == [root |-> root, file |-> file]
AllFiles == {WalkEntry(<<>>, "a.py"), WalkEntry(<<>>, "b.py"),
             WalkEntry(<<>>, "c.py"), WalkEntry(<<>>, "k.py"),
             WalkEntry(<<>>, "d.py"), WalkEntry(<<"venv">>, "e.py"),
             WalkEntry(<<>>, "notes.txt")}

\* os.path.join(root, file), below the scanned directory
PathJoin(root, file) == JoinWith(root \o <<file>>, "/")

\* open(file_path, encoding='utf-8').read() raises UnicodeDecodeError
Undecodable(file_path) == file_path = "d.py"

\* ---------------------------------------------------------------- ast trees
\* The tree ast.parse returns, restricted to the nodes and fields the code
\* reads; children is ast.iter_child_nodes(node), in its order.
Module(children) == [type |-> "Module", children |-> children]
ClassDef(name, bases, docstring, lineno, end_lineno, col_offset, children) ==
    [type |-> "ClassDef", name |-> name, bases |-> bases, docstring |-> docstring,
     lineno |-> lineno, end_lineno |-> end_lineno, col_offset |-> col_offset,
     children |-> children]
FunctionDef(name, args, docstring, lineno, end_lineno, col_offset, children) ==
    [type |-> "FunctionDef", name |-> name, args |-> args, docstring |-> docstring,
     lineno |-> lineno, end_lineno |-> end_lineno, col_offset |-> col_offset,
     children |-> children]
\* `async def` is a node type of its own, no FunctionDef.
AsyncFunctionDef(name, args, docstring, lineno, end_lineno, col_offset, children) ==
    [FunctionDef(name, args, docstring, lineno, end_lineno, col_offset, children)
        EXCEPT !.type = "AsyncFunctionDef"]
\* Any other statement: Assign, Expr, Pass, Return, If, For, While, Try.
Stmt(type, lineno, end_lineno, children) ==
    [type |-> type, lineno |-> lineno, end_lineno |-> end_lineno,
     children |-> children]
\* `import a.b`: names holds "a.b".
Import(names, lineno) ==
    [type |-> "Import", names |-> names, lineno |-> lineno, end_lineno |-> lineno,
     children |-> <<>>]
\* `from module import names`; node.module is None for `from . import x`.
NoModule == [none |-> TRUE]
ModuleName(name) == [none |-> FALSE, name |-> name]
ImportFrom(module, names, lineno) ==
    [type |-> "ImportFrom", module |-> module, names |-> names, lineno |-> lineno,
     end_lineno |-> lineno, children |-> <<>>]
\* A call; func is the callee: a Name with an id, or an Attribute without.
Name(id) == [type |-> "Name", id |-> id]
Attribute(attr) == [type |-> "Attribute", attr |-> attr]
Call(func, lineno, children) ==
    [type |-> "Call", func |-> func, lineno |-> lineno, end_lineno |-> lineno,
     children |-> children]

TreeA ==
    Module(<<ClassDef("A", <<>>, "", 1, 3, 0,
                      <<Stmt("Assign", 2, 2, <<>>), Stmt("Assign", 3, 3, <<>>)>>)>>)
TreeC ==
    Module(<<Import(<<"os">>, 1),
             FunctionDef("f", <<"a", "b">>, "", 2, 9, 0,
                 <<ImportFrom(NoModule, <<"x">>, 3),
                   Import(<<"os.path">>, 4),
                   ImportFrom(ModuleName("os"), <<"sep">>, 5),
                   FunctionDef("g", <<>>, "", 6, 7, 4, <<Stmt("Pass", 7, 7, <<>>)>>),
                   Stmt("If", 8, 9,
                       <<Stmt("Return", 9, 9,
                             <<Call(Name("g"), 9,
                                   <<Call(Attribute("join"), 9, <<>>)>>)>>)>>)>>),
             Stmt("If", 10, 12,
                 <<FunctionDef("h", <<>>, "", 11, 12, 4,
                       <<Stmt("Pass", 12, 12, <<>>)>>)>>),
             AsyncFunctionDef("co", <<>>, "", 13, 14, 0,
                 <<Stmt("Pass", 14, 14, <<>>)>>)>>)
TreeK ==
    Module(<<ClassDef("K", <<"A">>, "doc", 1, 7, 0,
                 <<Stmt("Expr", 2, 2, <<>>),
                   FunctionDef("m", <<>>, "", 4, 5, 4, <<Stmt("Pass", 5, 5, <<>>)>>),
                   ClassDef("N", <<>>, "", 6, 7, 4, <<Stmt("Pass", 7, 7, <<>>)>>)>>)>>)
TreeE ==
    Module(<<FunctionDef("e", <<>>, "", 1, 2, 0, <<Stmt("Pass", 2, 2, <<>>)>>)>>)

\* The files of the corpus that are valid Python, with their trees.
FileTree(file_path) ==
    CASE file_path = "a.py" -> TreeA
      [] file_path = "c.py" -> TreeC
      [] file_path = "k.py" -> TreeK
      [] file_path = "venv/e.py" -> TreeE
ValidFiles == {"a.py", "c.py", "k.py", "venv/e.py"}

\* ast.walk(node): breadth first.  Each entry carries the type of the node's
\* parent, as NodeVisitor.visit records it in node.parent ("None" at the root).
RECURSIVE WalkQueue(_)
WalkQueue(todo) ==
    IF todo = <<>> THEN <<>>
    ELSE LET e == Head(todo) IN
         <<e>> \o WalkQueue(Tail(todo) \o
                     [i \in 1..Len(e.node.children) |->
                         [node |-> e.node.children[i], parent |-> e.node.type]])
walk(node) == WalkQueue(<<[node |-> node, parent |-> "None"]>>)

Max(S) == CHOOSE x \in S : \A y \in S : y <= x

\* max(child.end_lineno for child in ast.walk(node) if hasattr(child, 'end_lineno'))
EndLine(node) ==
    Max({walk(node)[i].node.end_lineno : i \in 1..Len(walk(node))})

DefTypes == {"ClassDef", "FunctionDef", "AsyncFunctionDef"}

\* ast.parse(content) for the texts the pipeline hands to it: a file of the
\* corpus, or the lines lineno..end_line of a definition.  Such a slice parses
\* to the definition alone when it starts in column 0 and raises
\* IndentationError, a SyntaxError, when it is indented.
ast_parse(content) ==
    LET whole == {p \in ValidFiles : FileLines(p) = content}
        defs == {e \in UNION {{walk(FileTree(p))[i].node :
                                  i \in 1..Len(walk(FileTree(p)))} : p \in ValidFiles} :
                    e.type \in DefTypes /\ e.col_offset = 0}
        sliced == {e \in defs :
                      \E p \in ValidFiles :
                          /\ \E i \in 1..Len(walk(FileTree(p))) :
                                walk(FileTree(p))[i].node = e
                          /\ Slice(FileLines(p), e.lineno, EndLine(e)) = content}
    IN IF whole # {} THEN [raised |-> FALSE, tree |-> FileTree(CHOOSE p \in whole : TRUE)]
       ELSE IF sliced # {}
            THEN [raised |-> FALSE, tree |-> Module(<<CHOOSE e \in sliced : TRUE>>)]
            ELSE [raised |-> TRUE, tree |-> Module(<<>>)]

\* ---------------------------------------------------------------- segmenter
\* (start_line, end_line) as Python holds it: a tuple.
LineRange(start_line, end_line) == [py |-> "tuple", v |-> <<start_line, end_line>>]

\* [child.name for child in node.body if isinstance(child, ast.FunctionDef)]
Methods(node) ==
    LET fs == SelectSeq(node.children, LAMBDA c : c.type = "FunctionDef") IN
    [i \in 1..Len(fs) |-> fs[i].name]

\* AstParser._process_class
process_class(node, file_path, content) ==
    [content |-> Slice(content, node.lineno, EndLine(node)),
     metadata |-> [file_path |-> file_path, type |-> "class", name |-> node.name,
                   docstring |-> node.docstring, methods |-> Methods(node),
                   bases |-> node.bases,
                   line_range |-> LineRange(node.lineno, EndLine(node))]]

\* AstParser._process_function
process_function(node, file_path, content) ==
    [content |-> Slice(content, node.lineno, EndLine(node)),
     metadata |-> [file_path |-> file_path, type |-> "function", name |-> node.name,
                   docstring |-> node.docstring, arguments |-> node.args,
                   line_range |-> LineRange(node.lineno, EndLine(node))]]

\* The entries of ast.walk(tree) that parse_file turns into a document: every
\* ClassDef, and every FunctionDef whose parent is the Module.
Emitted(e) ==
    \/ e.node.type = "ClassDef"
    \/ e.node.type = "FunctionDef" /\ e.parent = "Module"

\* AstParser.parse_file: the documents it returns, or that it raised.
parse_file(file_path) ==
    IF Undecodable(file_path) THEN [raised |-> TRUE, documents |-> <<>>]
    ELSE LET content == FileLines(file_path)
             parsed == ast_parse(content)
             kept == SelectSeq(walk(parsed.tree), Emitted)
         IN IF parsed.raised
            THEN [raised |-> FALSE,
                  documents |-> <<[content |-> content,
                                   metadata |-> [file_path |-> file_path,
                                                 type |-> "raw_text"]]>>]
            ELSE [raised |-> FALSE,
                  documents |->
                     [i \in 1..Len(kept) |->
                         IF kept[i].node.type = "ClassDef"
                         THEN process_class(kept[i].node, file_path, content)
                         ELSE process_function(kept[i].node, file_path, content)]]

\* s.endswith(p)
EndsWith(s, p) == Len(s) >= Len(p) /\ SubSeq(s, Len(s) - Len(p) + 1, Len(s)) = p

\* "env" in root.split(os.path.sep) or "venv" in root.split(os.path.sep)
InVirtualEnv(root) == \E i \in 1..Len(root) : root[i] \in {"env", "venv"}

\* parse_directory with a fault: no try around parse_file, so the first file
\* that raises ends the scan and nothing is returned.
RECURSIVE parse_directory_unguarded(_)
parse_directory_unguarded(entries) ==
    IF entries = <<>> THEN [documents |-> <<>>, logged |-> <<>>, files_parsed |-> 0]
    ELSE LET e == Head(entries)
             rest == parse_directory_unguarded(Tail(entries))
             file_path == PathJoin(e.root, e.file)
         IN IF InVirtualEnv(e.root) \/ ~EndsWith(e.file, ".py") THEN rest
            ELSE IF parse_file(file_path).raised
                 THEN [documents |-> <<>>, logged |-> <<file_path>>, files_parsed |-> 0]
            ELSE IF rest.logged # <<>> THEN rest
                 ELSE [documents |-> parse_file(file_path).documents \o rest.documents,
                       logged |-> <<>>,
                       files_parsed |-> 1 + rest.files_parsed]

\* AstParser.parse_directory over what os.walk yields: the documents of every
\* file, in order; a file whose parse_file raises is logged and passed over.
RECURSIVE parse_directory(_)
parse_directory(entries) ==
    IF entries = <<>> THEN [documents |-> <<>>, logged |-> <<>>, files_parsed |-> 0]
    ELSE LET e == Head(entries)
             rest == parse_directory(Tail(entries))
             file_path == PathJoin(e.root, e.file)
         IN IF InVirtualEnv(e.root) \/ ~EndsWith(e.file, ".py") THEN rest
            ELSE IF parse_file(file_path).raised
                 THEN [rest EXCEPT !.logged = <<file_path>> \o @]
                 ELSE [documents |-> parse_file(file_path).documents \o rest.documents,
                       logged |-> rest.logged,
                       files_parsed |-> 1 + rest.files_parsed]

\* ----------------------------------------------------------------- enricher
\* A dict without keys.
EmptyDict == [k \in {} |-> 0]

RECURSIVE Flatten(_)
Flatten(seqs) == IF seqs = <<>> THEN <<>> ELSE Head(seqs) \o Flatten(Tail(seqs))

\* f"{module}.{name}" with module = node.module or ""
QualifiedName(module, name) ==
    (IF module.none THEN "" ELSE module.name) \o "." \o name

\* What one node adds to `imports` (metadata_extractor.py lines 63-69).
NodeImports(node) ==
    CASE node.type = "Import" -> node.names
      [] node.type = "ImportFrom" ->
            [i \in 1..Len(node.names) |-> QualifiedName(node.module, node.names[i])]
      [] OTHER -> <<>>

\* What one node adds to `function_calls`: the id of a callee that has one.
NodeCalls(node) ==
    IF node.type = "Call" /\ "id" \in DOMAIN node.func THEN <<node.func.id>> ELSE <<>>

BranchTypes == {"If", "For", "While", "Try"}

\* MetadataExtractor._extract_code_metadata: the additional metadata, empty
\* when the content does not parse.
extract_code_metadata(content, metadata) ==
    LET parsed == ast_parse(content)
        nodes == [i \in 1..Len(walk(parsed.tree)) |-> walk(parsed.tree)[i].node]
        imports == Flatten([i \in 1..Len(nodes) |-> NodeImports(nodes[i])])
        function_calls == Flatten([i \in 1..Len(nodes) |-> NodeCalls(nodes[i])])
        branches == Cardinality({i \in 1..Len(nodes) : nodes[i].type \in BranchTypes})
    IN IF parsed.raised THEN EmptyDict
       ELSE (IF imports # <<>> THEN [imports |-> imports] ELSE EmptyDict)
            @@ (IF function_calls # <<>> THEN [function_calls |-> function_calls]
                ELSE EmptyDict)
            @@ [complexity |-> [branches |-> branches]]

\* MetadataExtractor.enrich_metadata: dict.update on the metadata of every
\* class and function document.
enrich_metadata(documents) ==
    [i \in 1..Len(documents) |->
        IF documents[i].metadata.type \in {"class", "function"}
        THEN [documents[i] EXCEPT
                 !.metadata = extract_code_metadata(documents[i].content, @) @@ @]
        ELSE documents[i]]

\* ------------------------------------------------------------------ chunker
\* Chunker.__init__: chunk_size or Config.CHUNK_SIZE; the model writes the
\* argument None as 0.
ChunkerSize(chunk_size) == IF chunk_size = 0 THEN CHUNK_SIZE ELSE chunk_size

\* Chunker.__init__: the two fields of the object.
Chunker(chunk_size, chunk_overlap) ==
    [chunk_size |-> ChunkerSize(chunk_size),
     chunk_overlap |-> IF chunk_overlap = 0 THEN CHUNK_OVERLAP ELSE chunk_overlap]

\* Chunker._simple_chunk_by_size, on the string of a text
simple_chunk_by_size(text, chunk_size) ==
    IF Len(text) <= chunk_size THEN <<text>>
    ELSE [j \in 1..((Len(text) + chunk_size - 1) \div chunk_size) |->
             SubSeq(text, (j - 1) * chunk_size + 1,
                    IF j * chunk_size < Len(text) THEN j * chunk_size ELSE Len(text))]

\* indent_level = None
NoIndent == -1

\* The test at chunker.py lines 111-113 for one line.
LogicalBoundary(line, indent_level) ==
    LET stripped == lstrip(line) IN
    \/ StartsWith(line, "@")
    \/ StartsWith(stripped, "def ") /\ ~StartsWith(line, Spaces(indent_level + 4))
    \/ StartsWith(stripped, "class ") /\ ~StartsWith(line, Spaces(indent_level + 4))

\* The loop body with a fault: the test against chunk_size * 1.5 is left out.
CodeLineNoSizeTest(st, line, chunk_size) ==
    LET stripped == lstrip(line)
        indent_level == IF stripped # "" /\ st.indent_level = NoIndent
                        THEN Len(line) - Len(stripped) ELSE st.indent_level
        s1 == IF LogicalBoundary(line, indent_level) /\ st.current_chunk # <<>>
              THEN [st EXCEPT !.chunks = Append(@, st.current_chunk),
                              !.current_chunk = <<>>, !.current_size = 0]
              ELSE st
    IN [chunks |-> s1.chunks,
        current_chunk |-> Append(s1.current_chunk, line),
        current_size |-> s1.current_size + Len(line) + 1,
        indent_level |-> indent_level]

\* One pass of the loop of _chunk_code over a line; st holds chunks,
\* current_chunk, current_size and indent_level.
CodeLine(st, line, chunk_size) ==
    LET line_size == Len(line) + 1
        stripped == lstrip(line)
        indent_level == IF stripped # "" /\ st.indent_level = NoIndent
                        THEN Len(line) - Len(stripped) ELSE st.indent_level
        s1 == IF LogicalBoundary(line, indent_level) /\ st.current_chunk # <<>>
              THEN [st EXCEPT !.chunks = Append(@, st.current_chunk),
                              !.current_chunk = <<>>, !.current_size = 0]
              ELSE st
        \* current_size + line_size > chunk_size * 1.5
        s2 == IF 2 * (s1.current_size + line_size) > 3 * chunk_size
                  /\ s1.current_chunk # <<>>
              THEN [s1 EXCEPT !.chunks = Append(@, s1.current_chunk),
                              !.current_chunk = <<>>, !.current_size = 0]
              ELSE s1
    IN [chunks |-> s2.chunks,
        current_chunk |-> Append(s2.current_chunk, line),
        current_size |-> s2.current_size + line_size,
        indent_level |-> indent_level]

RECURSIVE CodeLoop(_, _, _)
CodeLoop(st, lines, chunk_size) ==
    IF lines = <<>> THEN st
    ELSE CodeLoop(CodeLine(st, Head(lines), chunk_size), Tail(lines), chunk_size)

\* _chunk_code with a fault: every line is cut off as a chunk of its own.
chunk_code_per_line(content, metadata, chunk_size) ==
    [j \in 1..Len(content) |-> <<content[j]>>]

\* _chunk_code with a fault: the final chunk (lines 131-132) is not added.
chunk_code_without_tail(content, metadata, chunk_size) ==
    IF TextLen(content) <= chunk_size THEN <<content>>
    ELSE IF metadata.type = "function" /\ TextLen(content) <= chunk_size * 2
         THEN <<content>>
    ELSE LET st == CodeLoop([chunks |-> <<>>, current_chunk |-> <<>>,
                             current_size |-> 0, indent_level |-> NoIndent],
                            content, chunk_size)
         IN IF st.chunks = <<>>
            THEN LET sliced == simple_chunk_by_size(TextOf(content), chunk_size) IN
                 [j \in 1..Len(sliced) |-> LinesOf(sliced[j])]
            ELSE st.chunks

\* _chunk_code with a fault: no larger allowance for functions (lines 88-91).
chunk_code_no_allowance(content, metadata, chunk_size) ==
    IF TextLen(content) <= chunk_size THEN <<content>>
    ELSE LET st == CodeLoop([chunks |-> <<>>, current_chunk |-> <<>>,
                             current_size |-> 0, indent_level |-> NoIndent],
                            content, chunk_size)
         IN IF st.current_chunk # <<>>
            THEN Append(st.chunks, st.current_chunk) ELSE st.chunks

\* Chunker._chunk_code: the chunks, each the tuple of its lines.
chunk_code(content, metadata, chunk_size) ==
    IF TextLen(content) <= chunk_size THEN <<content>>
    ELSE IF metadata.type = "function" /\ TextLen(content) <= chunk_size * 2
         THEN <<content>>
    ELSE LET st == CodeLoop([chunks |-> <<>>, current_chunk |-> <<>>,
                             current_size |-> 0, indent_level |-> NoIndent],
                            content, chunk_size)
             chunks == IF st.current_chunk # <<>>
                       THEN Append(st.chunks, st.current_chunk) ELSE st.chunks
         IN IF chunks = <<>>
            THEN LET sliced == simple_chunk_by_size(TextOf(content), chunk_size) IN
                 [j \in 1..Len(sliced) |-> LinesOf(sliced[j])]
            ELSE chunks

\* re.split(r'(?<=[.!?])\s+', para): cut at every run of whitespace that
\* follows '.', '!' or '?'; the run is dropped.
RECURSIVE SplitSentences(_)
SplitSentences(para) ==
    LET at == {i \in 2..Len(para) : /\ SubSeq(para, i - 1, i - 1) \in {".", "!", "?"}
                                    /\ SubSeq(para, i, i) \in Whitespace} IN
    IF at = {} THEN <<para>>
    ELSE LET i == CHOOSE i \in at : \A j \in at : i <= j
             \* the first position after the run that starts at i
             j == CHOOSE j \in (i + 1)..(Len(para) + 1) :
                     /\ \A m \in i..(j - 1) : SubSeq(para, m, m) \in Whitespace
                     /\ j = Len(para) + 1 \/ SubSeq(para, j, j) \notin Whitespace
         IN <<SubSeq(para, 1, i - 1)>> \o SplitSentences(SubSeq(para, j, Len(para)))

\* chunks.append('\n\n'.join(current_chunk)); current_chunk = []; current_size = 0
Flush(st) ==
    [chunks |-> Append(st.chunks, JoinWith(st.current_chunk, "\n\n")),
     current_chunk |-> <<>>, current_size |-> 0]

\* One pass of the loop over the sentences of a paragraph (lines 201-223).
TextSentence(st, sentence, chunk_size) ==
    LET sentence_size == Len(sentence) + 1
        s1 == IF st.current_size + sentence_size > chunk_size /\ st.current_chunk # <<>>
              THEN Flush(st) ELSE st
    IN IF sentence_size > chunk_size
       THEN [chunks |-> (IF s1.current_chunk # <<>> THEN Flush(s1).chunks ELSE s1.chunks)
                           \o simple_chunk_by_size(sentence, chunk_size),
             current_chunk |-> <<>>, current_size |-> 0]
       ELSE [s1 EXCEPT !.current_chunk = Append(@, sentence),
                       !.current_size = @ + sentence_size]

RECURSIVE SentenceLoop(_, _, _)
SentenceLoop(st, sentences, chunk_size) ==
    IF sentences = <<>> THEN st
    ELSE SentenceLoop(TextSentence(st, Head(sentences), chunk_size),
                      Tail(sentences), chunk_size)

\* One pass of the loop over the paragraphs (lines 187-226).
TextParagraph(st, para, chunk_size) ==
    LET para_size == Len(para) + 2
        s1 == IF st.current_size + para_size > chunk_size /\ st.current_chunk # <<>>
              THEN Flush(st) ELSE st
    IN IF para_size > chunk_size
       THEN SentenceLoop(s1, SplitSentences(para), chunk_size)
       ELSE [s1 EXCEPT !.current_chunk = Append(@, para),
                       !.current_size = @ + para_size]

RECURSIVE ParagraphLoop(_, _, _)
ParagraphLoop(st, paragraphs, chunk_size) ==
    IF paragraphs = <<>> THEN st
    ELSE ParagraphLoop(TextParagraph(st, Head(paragraphs), chunk_size),
                       Tail(paragraphs), chunk_size)

\* Chunker._chunk_text, on the string of a text: the chunks as strings.
chunk_text(text, chunk_size) ==
    IF Len(text) <= chunk_size THEN <<text>>
    ELSE LET st == ParagraphLoop([chunks |-> <<>>, current_chunk |-> <<>>,
                                  current_size |-> 0],
                                 Split(text, "\n\n"), chunk_size)
         IN IF st.current_chunk # <<>> THEN Flush(st).chunks ELSE st.chunks

\* The pieces chunk_documents cuts one document into (chunker.py lines 46-51),
\* each the tuple of its lines.
Pieces(doc, chunk_size) ==
    IF doc.metadata.type \in {"class", "function"}
    THEN chunk_code(doc.content, doc.metadata, chunk_size)
    ELSE LET chunks == chunk_text(TextOf(doc.content), chunk_size) IN
         [j \in 1..Len(chunks) |-> LinesOf(chunks[j])]

\* The stamping with a fault: chunk_index counts from 1.
ChunkDocOneBased(unit, pieces, i) ==
    [content |-> pieces[i + 1],
     metadata |-> [chunk_index |-> i + 1, total_chunks |-> Len(pieces)]
                     @@ unit.metadata]

\* Chunker.chunk_documents, lines 53-61: chunk i (0-based) of the pieces of a
\* unit, stamped with chunk_index and total_chunks on a copy of the metadata.
ChunkDoc(unit, pieces, i) ==
    [content |-> pieces[i + 1],
     metadata |-> [chunk_index |-> i, total_chunks |-> Len(pieces)] @@ unit.metadata]

\* Chunker.chunk_documents
chunk_documents(documents, chunk_size) ==
    Flatten([d \in 1..Len(documents) |->
                [i \in 1..Len(Pieces(documents[d], chunk_size)) |->
                    ChunkDoc(documents[d], Pieces(documents[d], chunk_size), i - 1)]])

\* chunk_documents with a fault: every chunk but the first of a unit starts
\* with the last self.chunk_overlap lines of the chunk before it.
chunk_documents_overlapping(self, documents) ==
    LET chunks == chunk_documents(documents, self.chunk_size) IN
    [c \in 1..Len(chunks) |->
        IF chunks[c].metadata.chunk_index = 0 THEN chunks[c]
        ELSE LET prev == chunks[c - 1].content
                 n == IF self.chunk_overlap < Len(prev)
                      THEN self.chunk_overlap ELSE Len(prev)
             IN [chunks[c] EXCEPT
                    !.content = SubSeq(prev, Len(prev) - n + 1, Len(prev)) \o @]]

\* self.chunker.chunk_documents(documents): the method bound to its object.
\* The bodies of chunk_documents, _chunk_code, _chunk_text and
\* _simple_chunk_by_size read self.chunk_size and no other field.
Chunker_chunk_documents(self, documents) ==
    chunk_documents(documents, self.chunk_size)

\* The documents handed to enrich_metadata, as they are when it has returned:
\* doc["metadata"].update(...) writes into the dict of the document it was
\* handed, and the returned list holds these same documents.
enrich_metadata_argument(documents) == enrich_metadata(documents)

\* The documents handed to chunk_documents, as they are when it has returned:
\* the stamps are written to metadata.copy(), never to the document.
chunk_documents_argument(documents) == documents

\* ------------------------------------------------- the documents of the store
\* What index_codebase hands to the store for a directory holding a.py and
\* b.py, with a Chunker of size 13.  a.py gives the class unit A (parsed, then
\* enriched), cut in two pieces; b.py does not parse and gives one raw_text
\* unit, kept whole.
StoreChunkSize == 13
ClassUnit ==
    [content |-> Slice(FileLines("a.py"), 1, 3),
     metadata |-> [file_path |-> "a.py", type |-> "class", name |-> "A",
                   docstring |-> "", methods |-> <<>>, bases |-> <<>>,
                   line_range |-> LineRange(1, 3),
                   complexity |-> [branches |-> 0]]]
RawUnit ==
    [content |-> FileLines("b.py"),
     metadata |-> [file_path |-> "b.py", type |-> "raw_text"]]
ClassPieces == <<Slice(ClassUnit.content, 1, 2), Slice(ClassUnit.content, 3, 3)>>
\* The documents handed to add_documents: the last chunk of each unit.
Docs == {ChunkDoc(ClassUnit, ClassPieces, 1), ChunkDoc(RawUnit, <<RawUnit.content>>, 0)}

\* ------------------------------------------------------ embedding collaborator
\* embed: text -> vector, a pure function; distinct chunks get distinct vectors.
Embed(text) ==
    CASE text = ClassPieces[1] -> <<1, 0>>
      [] text = ClassPieces[2] -> <<0, 1>>
      [] OTHER -> <<1, 1>>

\* EmbeddingGenerator.generate_embeddings: one row per text.
generate_embeddings(texts) == [i \in 1..Len(texts) |-> Embed(texts[i])]

\* --------------------------------------------------------------------- state
VARIABLES
    alive,          \* a FaissVectorStore object exists in the running process
    index,          \* self.index: [none, d, vecs]; none = TRUE is Python's None
    metadata,       \* self.metadata: one record per appended document
    dimension,      \* self.dimension
    index_file,     \* the artifact at index_path: [state, d, vecs]
    metadata_file,  \* the artifact at metadata_path: [state, recs]
    last,           \* the last call: what it was, how it ended, what it returned
    faults,         \* failed disk writes so far
    stage,          \* index_codebase: the call it makes next
    directory,      \* what os.walk(directory_path) yields, in its order
    chunk_size,     \* the argument the Chunker was constructed with
    chunk_overlap,  \* the overlap argument the Chunker was constructed with
    units,          \* the documents parse_directory made, as they are now
    documents,      \* index_codebase's `documents`
    chunked_documents,  \* index_codebase's `chunked_documents`
    logged,         \* the files parse_directory logged an error for
    search_results, \* Retriever._enrich_results: the list it is handed
    files_readable, \* whether open(file_path) succeeds during the call
    enriched_results,   \* the list _enrich_results returns
    retrieved       \* _enrich_results has returned

\* The indexing job of cli.index_codebase, up to the chunks it embeds.
job == <<stage, directory, chunk_size, chunk_overlap, units, documents,
         chunked_documents, logged>>

\* One call of Retriever._enrich_results.
call == <<search_results, files_readable, enriched_results, retrieved>>

vars == <<alive, index, metadata, dimension, index_file, metadata_file, last, faults,
          job, call>>

None == [none |-> TRUE, d |-> 0, vecs |-> <<>>]
\* IndexFlatL2 with a fault: the width is the configured one, whatever is asked.
IndexFlatConfigured(d) == [none |-> FALSE, d |-> VECTOR_DIMENSION, vecs |-> <<>>]
\* faiss.IndexFlatL2(d): an empty flat L2 index of width d.
IndexFlatL2(d) == [none |-> FALSE, d |-> d, vecs |-> <<>>]
ntotal(idx) == Len(idx.vecs)

NoFile == [state |-> "absent", d |-> 0, vecs |-> <<>>]
NoMetaFile == [state |-> "absent", recs |-> <<>>]

\* ------------------------------------------------------------ JSON encoding
\* json.dump writes a tuple as an array; json.load reads an array as a list.
\* Strings, numbers, lists and dicts read back as they were written.
JsonDumpRange(r) == [json |-> "array", v |-> r.v]
JsonLoadRange(j) == [py |-> "list", v |-> j.v]
JsonDump(recs) ==
    [i \in 1..Len(recs) |->
        [k \in DOMAIN recs[i] |->
            IF k = "line_range" THEN JsonDumpRange(recs[i][k]) ELSE recs[i][k]]]
JsonLoad(objs) ==
    [i \in 1..Len(objs) |->
        [k \in DOMAIN objs[i] |->
            IF k = "line_range" THEN JsonLoadRange(objs[i][k]) ELSE objs[i][k]]]

\* --------------------------------------------------------------------- save
\* Where a save can fail: nowhere; before anything is written; while the index
\* artifact is being written; on opening the metadata artifact, the index
\* artifact already written; while the metadata artifact is being written.
SaveFaults == {"none", "before", "index_partial", "metadata_open", "metadata_partial"}

WriteIndex(idx) == [state |-> "ok", d |-> idx.d, vecs |-> idx.vecs]
\* WriteMetadata with a fault: the records are written last slot first.
WriteMetadataReversed(recs) ==
    [state |-> "ok",
     recs |-> JsonDump([i \in 1..Len(recs) |-> recs[Len(recs) + 1 - i]])]
WriteMetadata(recs) == [state |-> "ok", recs |-> JsonDump(recs)]
BadIndexFile == [state |-> "bad", d |-> 0, vecs |-> <<>>]
BadMetaFile == [state |-> "bad", recs |-> <<>>]

\* save with a fault: it writes the index artifact and forgets the metadata.
saveIndexOnly(idx, recs, ifile, mfile, fault) ==
    IF idx.none THEN [index_file |-> ifile, metadata_file |-> mfile, raised |-> TRUE]
    ELSE [index_file |-> WriteIndex(idx), metadata_file |-> mfile,
          raised |-> fault # "none"]

\* FaissVectorStore.save: the two artifacts after the call and whether it raised.
save(idx, recs, ifile, mfile, fault) ==
    IF idx.none THEN [index_file |-> ifile, metadata_file |-> mfile, raised |-> TRUE]
    ELSE CASE fault = "before" ->
                [index_file |-> ifile, metadata_file |-> mfile, raised |-> TRUE]
           [] fault = "index_partial" ->
                [index_file |-> BadIndexFile, metadata_file |-> mfile, raised |-> TRUE]
           [] fault = "metadata_open" ->
                [index_file |-> WriteIndex(idx), metadata_file |-> mfile, raised |-> TRUE]
           [] fault = "metadata_partial" ->
                [index_file |-> WriteIndex(idx), metadata_file |-> BadMetaFile,
                 raised |-> TRUE]
           [] OTHER ->
                [index_file |-> WriteIndex(idx), metadata_file |-> WriteMetadata(recs),
                 raised |-> FALSE]

\* --------------------------------------------------------------------- load
\* The class of the exception a failed read raises: one that load's
\* `except (FileNotFoundError, IOError)` catches, or any other.
ExcKinds == {"IOError", "other"}

\* FaissVectorStore.load: index and metadata after the call and its outcome
\* ("ok" = returned True, "false" = returned False, "raised").
load(idx, recs, ifile, mfile, exc) ==
    IF ifile.state # "ok"
    THEN [index |-> idx, metadata |-> recs,
          outcome |-> IF exc = "IOError" THEN "false" ELSE "raised"]
    ELSE LET read == [none |-> FALSE, d |-> ifile.d, vecs |-> ifile.vecs] IN
         CASE mfile.state = "ok" ->
                [index |-> read, metadata |-> JsonLoad(mfile.recs), outcome |-> "ok"]
           [] mfile.state = "absent" ->
                [index |-> read, metadata |-> recs, outcome |-> "false"]
           [] OTHER ->
                [index |-> read, metadata |-> recs,
                 outcome |-> IF exc = "IOError" THEN "false" ELSE "raised"]

\* ------------------------------------------------------------------- search
Sq(x) == x * x
\* IndexFlatL2's metric: the squared Euclidean distance.
L2(a, b) == Sq(a[1] - b[1]) + Sq(a[2] - b[2])

\* Slot i is reported before slot j: nearer, or as near and stored earlier.
Before(idx, q, i, j) ==
    \/ L2(idx.vecs[i + 1], q) < L2(idx.vecs[j + 1], q)
    \/ L2(idx.vecs[i + 1], q) = L2(idx.vecs[j + 1], q) /\ i < j

\* float(x): a float is written as the fraction num/den in lowest terms.
Float(x) == [num |-> x, den |-> 1]

\* faiss index.search(q, k): k (label, distance) pairs, nearest first, padded
\* with label -1 when the index holds fewer than k vectors.
index_search(idx, q, k) ==
    [r \in 1..k |->
        IF r <= ntotal(idx)
        THEN LET i == CHOOSE i \in 0..(ntotal(idx) - 1) :
                        Cardinality({j \in 0..(ntotal(idx) - 1) : Before(idx, q, j, i)})
                            = r - 1
             IN [label |-> i, distance |-> Float(L2(idx.vecs[i + 1], q))]
        ELSE [label |-> -1, distance |-> Float(-1)]]

\* The loop of FaissVectorStore.search: labels outside the metadata are skipped.
ValidHit(recs, h) == ~(h.label < 0 \/ h.label >= Len(recs))

HitsToResults(recs, hits) ==
    LET kept == SelectSeq(hits, LAMBDA h : ValidHit(recs, h)) IN
    [i \in 1..Len(kept) |->
        [metadata |-> recs[kept[i].label + 1], distance |-> kept[i].distance]]

\* FaissVectorStore.search for a query of the index's width.
search(idx, recs, q, k) ==
    IF idx.none \/ ntotal(idx) = 0 THEN <<>>
    ELSE HitsToResults(recs, index_search(idx, q, k))

\* ---------------------------------------------------------------- retriever
\* metadata.get(key, default)
Get(md, key, default) == IF key \in DOMAIN md THEN md[key] ELSE default

\* The fallback texts of _get_content_from_metadata (lines 123-135).
Placeholder(md) ==
    LET file_path == Get(md, "file_path", "unknown")
        content_type == Get(md, "type", "unknown")
    IN CASE content_type = "class" ->
              <<"class " \o Get(md, "name", "UnknownClass") \o ":",
                "    # Content not available - check file " \o file_path,
                "    pass">>
         [] content_type = "function" ->
              <<"def " \o Get(md, "name", "unknown_function") \o "("
                   \o JoinWith(Get(md, "arguments", <<>>), ", ") \o "):",
                "    # Content not available - check file " \o file_path,
                "    pass">>
         [] OTHER ->
              <<"# Content from " \o file_path \o " (unavailable in search results)">>

\* _get_content_from_metadata with the line range tried before the content key.
get_content_reread_first(md, readable) ==
    IF "line_range" \in DOMAIN md /\ readable
          /\ FileLines(Get(md, "file_path", "unknown")) # <<>>
    THEN Slice(FileLines(md.file_path), md.line_range.v[1], md.line_range.v[2])
    ELSE IF "content" \in DOMAIN md THEN md.content
         ELSE Placeholder(md)

\* Retriever._get_content_from_metadata; readable: open(file_path) succeeds.
\* A file that cannot be opened, or is not there, raises inside the try.
get_content_from_metadata(md, readable) ==
    IF "content" \in DOMAIN md THEN md.content
    ELSE IF "line_range" \in DOMAIN md /\ readable
              /\ FileLines(Get(md, "file_path", "unknown")) # <<>>
         THEN Slice(FileLines(md.file_path), md.line_range.v[1], md.line_range.v[2])
         ELSE Placeholder(md)

\* relevance_score = 1.0 - distance: the score without the reciprocal.
relevance_score_linear(distance) ==
    [num |-> distance.den - distance.num, den |-> distance.den]

\* relevance_score = 1.0 / (1.0 + distance), in exact arithmetic:
\* 1 / (1 + num/den) = den / (den + num).
relevance_score(distance) ==
    [num |-> distance.den, den |-> distance.den + distance.num]
ScoreLess(a, b) == a.num * b.den < b.num * a.den

\* list.sort(key=relevance_score): stable, lowest score first.
RECURSIVE SortByScoreAscending(_)
SortByScoreAscending(rs) ==
    IF Len(rs) <= 1 THEN rs
    ELSE LET rest == SortByScoreAscending(Tail(rs))
             x == Head(rs)
             ahead == SelectSeq(rest, LAMBDA y : ScoreLess(y.relevance_score,
                                                           x.relevance_score))
             behind == SelectSeq(rest, LAMBDA y : ~ScoreLess(y.relevance_score,
                                                             x.relevance_score))
         IN ahead \o <<x>> \o behind

\* list.sort(key=relevance_score, reverse=True): stable, highest score first.
RECURSIVE SortByScore(_)
SortByScore(rs) ==
    IF Len(rs) <= 1 THEN rs
    ELSE LET rest == SortByScore(Tail(rs))
             x == Head(rs)
             \* x goes before the first element whose score is not above x's
             ahead == SelectSeq(rest, LAMBDA y : ScoreLess(x.relevance_score,
                                                           y.relevance_score))
             behind == SelectSeq(rest, LAMBDA y : ~ScoreLess(x.relevance_score,
                                                             y.relevance_score))
         IN ahead \o <<x>> \o behind

\* Retriever._enrich_results
enrich_results(results, readable) ==
    SortByScore([i \in 1..Len(results) |->
        [content |-> get_content_from_metadata(results[i].metadata, readable),
         metadata |-> results[i].metadata,
         distance |-> results[i].distance,
         relevance_score |-> relevance_score(results[i].distance)]])

\* ----------------------------------------------------------------- actions
NoCall == [op |-> "none", outcome |-> "ok", error_logged |-> FALSE,
           applied |-> FALSE, save_failed |-> FALSE,
           docs |-> <<>>, d |-> 0, results |-> <<>>]

\* No indexing job is running.
NoJob ==
    /\ stage = "idle"
    /\ directory = <<>>
    /\ chunk_size = 0
    /\ chunk_overlap = 0
    /\ units = <<>>
    /\ documents = <<>>
    /\ chunked_documents = <<>>
    /\ logged = <<>>

\* No call of _enrich_results is under way.
NoRetrieval ==
    /\ search_results = <<>>
    /\ files_readable = TRUE
    /\ enriched_results = <<>>
    /\ retrieved = FALSE

Init ==
    /\ alive = FALSE
    /\ index = None
    /\ metadata = <<>>
    /\ dimension = VECTOR_DIMENSION
    /\ index_file = NoFile
    /\ metadata_file = NoMetaFile
    /\ last = NoCall
    /\ faults = 0
    /\ NoJob
    /\ NoRetrieval

\* A failed write counts against the budget of the run.
Cost(fault) == IF fault = "none" THEN 0 ELSE 1
Allowed(fault) == faults + Cost(fault) <= MaxFaults

BothExist == index_file.state # "absent" /\ metadata_file.state # "absent"

\* FaissVectorStore.__init__ (dimension=768) when both artifacts exist: load.
ConstructLoad(exc) ==
    /\ ~alive
    /\ BothExist
    /\ dimension' = VECTOR_DIMENSION
    /\ LET ld == load(None, <<>>, index_file, metadata_file, exc) IN
       /\ alive' = (ld.outcome # "raised")
       /\ index' = IF ld.outcome = "raised" THEN None ELSE ld.index
       /\ metadata' = IF ld.outcome = "raised" THEN <<>> ELSE ld.metadata
       /\ last' = [NoCall EXCEPT !.op = "init",
                      !.outcome = IF ld.outcome = "raised" THEN "raised" ELSE "ok",
                      !.error_logged = (ld.outcome = "false")]
    /\ UNCHANGED <<index_file, metadata_file, faults, job, call>>

\* FaissVectorStore.__init__ otherwise: _create_empty_index, which saves.
ConstructEmpty(fault) ==
    /\ ~alive
    /\ ~BothExist
    /\ Allowed(fault)
    /\ LET sv == save(IndexFlatL2(VECTOR_DIMENSION), <<>>, index_file,
                      metadata_file, fault) IN
       /\ alive' = TRUE
       /\ dimension' = VECTOR_DIMENSION
       /\ index' = IndexFlatL2(VECTOR_DIMENSION)
       /\ metadata' = <<>>
       /\ index_file' = sv.index_file
       /\ metadata_file' = sv.metadata_file
       /\ last' = [NoCall EXCEPT !.op = "init", !.error_logged = sv.raised,
                      !.save_failed = sv.raised]
    /\ faults' = faults + Cost(fault)
    /\ UNCHANGED <<job, call>>

\* The process ends; the next run constructs a new store (cli.main).
Exit ==
    /\ alive
    /\ alive' = FALSE
    /\ index' = None
    /\ metadata' = <<>>
    /\ dimension' = VECTOR_DIMENSION
    /\ last' = [NoCall EXCEPT !.op = "exit"]
    /\ UNCHANGED <<index_file, metadata_file, faults, job, call>>

DocMetadata(docs) == [i \in 1..Len(docs) |-> docs[i].metadata]
DocContents(docs) == [i \in 1..Len(docs) |-> docs[i].content]

\* FaissVectorStore.add_documents(documents, embeddings), embeddings of shape
\* (len(documents), d).  fault0 is the save inside _create_empty_index (made
\* only when self.index is None), fault the save that ends the call.
AddDocuments(docs, d, fault0, fault) ==
    /\ alive
    /\ Len(metadata) + Len(docs) <= MaxSlots
    /\ ntotal(index) + Len(docs) <= MaxSlots
    /\ index.none \/ fault0 = "none"
    /\ d = (IF index.none THEN d ELSE index.d) \/ fault = "none"
    /\ faults + Cost(fault0) + Cost(fault) <= MaxFaults
    /\ LET embeddings == generate_embeddings(DocContents(docs))
           idx0 == IF index.none THEN IndexFlatL2(d) ELSE index
           sv0 == IF index.none
                  THEN save(idx0, metadata, index_file, metadata_file, fault0)
                  ELSE [index_file |-> index_file, metadata_file |-> metadata_file,
                        raised |-> FALSE]
           md1 == metadata \o DocMetadata(docs)
           idx1 == [idx0 EXCEPT !.vecs = @ \o embeddings]
           sv1 == save(idx1, md1, sv0.index_file, sv0.metadata_file, fault)
       IN /\ dimension' = IF index.none THEN d ELSE dimension
          /\ metadata' = md1
          /\ IF d # idx0.d
             THEN \* index.add raises: the width of the rows is not the index's
                  /\ index' = idx0
                  /\ index_file' = sv0.index_file
                  /\ metadata_file' = sv0.metadata_file
                  /\ last' = [NoCall EXCEPT !.op = "add", !.outcome = "raised",
                                 !.docs = docs, !.d = d,
                                 !.error_logged = sv0.raised]
             ELSE /\ index' = idx1
                  /\ index_file' = sv1.index_file
                  /\ metadata_file' = sv1.metadata_file
                  /\ last' = [NoCall EXCEPT !.op = "add", !.applied = TRUE,
                                 !.docs = docs, !.d = d,
                                 !.save_failed = sv1.raised,
                                 !.error_logged = sv0.raised \/ sv1.raised]
    /\ faults' = faults + Cost(fault0) + Cost(fault)
    /\ alive' = alive
    /\ UNCHANGED <<job, call>>

\* top_k=None stands for Config.TOP_K; the model writes None as k = 0.
TopK(k) == IF k = 0 THEN TOP_K ELSE k

\* FaissVectorStore.search(query_embedding, top_k) for a query q = [d, v] of
\* width d: the returned list, or the error index.search raises on a query of
\* another width than the index's.
SearchCall(q, k) ==
    IF index.none \/ ntotal(index) = 0
    THEN [outcome |-> "ok", results |-> <<>>]
    ELSE IF q.d # index.d
         THEN [outcome |-> "raised", results |-> <<>>]
         ELSE [outcome |-> "ok", results |-> search(index, metadata, q.v, TopK(k))]

\* search with a fault: it keeps only the metadata of the first top_k slots.
SearchTrimming(q, k) ==
    /\ alive
    /\ last' = [NoCall EXCEPT !.op = "search",
                   !.outcome = SearchCall(q, k).outcome,
                   !.results = SearchCall(q, k).results]
    /\ metadata' = IF Len(metadata) > TopK(k)
                   THEN SubSeq(metadata, 1, TopK(k)) ELSE metadata
    /\ UNCHANGED <<alive, index, dimension, index_file, metadata_file, faults,
                   job, call>>

Search(q, k) ==
    /\ alive
    /\ last' = [NoCall EXCEPT !.op = "search",
                   !.outcome = SearchCall(q, k).outcome,
                   !.results = SearchCall(q, k).results]
    /\ UNCHANGED <<alive, index, metadata, dimension, index_file, metadata_file,
                   faults, job, call>>

\* Retriever.retrieve(query, top_k): q is the embedding of the query text.
Retrieve(q, k, readable) ==
    /\ alive
    /\ last' = [NoCall EXCEPT !.op = "retrieve",
                   !.outcome = SearchCall(q, k).outcome,
                   !.results = enrich_results(SearchCall(q, k).results, readable)]
    /\ UNCHANGED <<alive, index, metadata, dimension, index_file, metadata_file,
                   faults, job, call>>

\* FaissVectorStore.save() on the default paths.
Save(fault) ==
    /\ alive
    /\ Allowed(fault)
    /\ index.none => fault = "none"
    /\ LET sv == save(index, metadata, index_file, metadata_file, fault) IN
       /\ index_file' = sv.index_file
       /\ metadata_file' = sv.metadata_file
       /\ last' = [NoCall EXCEPT !.op = "save",
                      !.outcome = IF sv.raised THEN "raised" ELSE "ok",
                      !.save_failed = sv.raised]
    /\ faults' = faults + Cost(fault)
    /\ UNCHANGED <<alive, index, metadata, dimension, job, call>>

\* FaissVectorStore.load() on the default paths.
Load(exc) ==
    /\ alive
    /\ LET ld == load(index, metadata, index_file, metadata_file, exc) IN
       /\ index' = ld.index
       /\ metadata' = ld.metadata
       /\ last' = [NoCall EXCEPT !.op = "load", !.outcome = ld.outcome,
                      !.error_logged = (ld.outcome = "false")]
    /\ UNCHANGED <<alive, dimension, index_file, metadata_file, faults, job, call>>

DocSeqs == UNION {[1..m -> Docs] : m \in 1..MaxAdd}
\* Query vectors of the configured width, and the embedder's zero vector of
\* the other width.
QueryVecs == {<<0, 0>>, <<1, 1>>}
Queries == {[d |-> VECTOR_DIMENSION, v |-> v] : v \in QueryVecs}
               \cup {[d |-> OtherDimension, v |-> <<0, 0>>]}

Next ==
    \/ \E exc \in ExcKinds : ConstructLoad(exc)
    \/ \E fault \in SaveFaults : ConstructEmpty(fault)
    \/ Exit
    \/ \E docs \in DocSeqs, d \in Dims, fault0 \in SaveFaults, fault \in SaveFaults :
          AddDocuments(docs, d, fault0, fault)
    \/ \E q \in Queries, k \in 0..MaxK : Search(q, k)
    \/ \E q \in Queries, k \in 0..MaxK, readable \in BOOLEAN : Retrieve(q, k, readable)
    \/ \E fault \in SaveFaults : Save(fault)
    \/ \E exc \in ExcKinds : Load(exc)

Spec == Init /\ [][Next]_vars

\* The store alone: the calls that write memory or the artifacts.
StoreNext ==
    \/ \E exc \in ExcKinds : ConstructLoad(exc)
    \/ \E fault \in SaveFaults : ConstructEmpty(fault)
    \/ Exit
    \/ \E docs \in DocSeqs, d \in Dims, fault0 \in SaveFaults, fault \in SaveFaults :
          AddDocuments(docs, d, fault0, fault)
    \/ \E fault \in SaveFaults : Save(fault)
    \/ \E exc \in ExcKinds : Load(exc)

StoreSpec == Init /\ [][StoreNext]_vars

\* ------------------------------------------------------------ indexing job
\* The store's variables, which the first calls of index_codebase leave alone.
store == <<alive, index, metadata, dimension, index_file, metadata_file, last, faults>>

\* self.ast_parser.parse_directory(directory_path)
ParseDirectory ==
    /\ stage = "parse"
    /\ documents' = parse_directory(directory).documents
    /\ units' = documents'
    /\ logged' = parse_directory(directory).logged
    /\ stage' = "enrich"
    /\ UNCHANGED <<store, call, directory, chunk_size, chunk_overlap, chunked_documents>>

\* self.metadata_extractor.enrich_metadata(documents)
EnrichMetadata ==
    /\ stage = "enrich"
    /\ documents' = enrich_metadata(documents)
    /\ units' = enrich_metadata_argument(units)
    /\ stage' = "chunk"
    /\ UNCHANGED <<store, call, directory, chunk_size, chunk_overlap, chunked_documents,
                   logged>>

\* self.chunker.chunk_documents(documents)
ChunkDocuments ==
    /\ stage = "chunk"
    /\ chunked_documents' =
          Chunker_chunk_documents(Chunker(chunk_size, chunk_overlap), documents)
    /\ units' = chunk_documents_argument(units)
    /\ stage' = "embed"
    /\ UNCHANGED <<store, call, directory, chunk_size, chunk_overlap, documents, logged>>

\* The orders in which os.walk can yield up to MaxFiles files of the corpus.
Listings ==
    {l \in UNION {[1..n -> AllFiles] : n \in 0..MaxFiles} :
        \A i, j \in 1..Len(l) : l[i] = l[j] => i = j}

\* Chunker(chunk_size=...): None (written 0), 5, 13, 40 or 100 characters.
ChunkSizeArgs == {0, 5, 13, 40, 100}

\* An indexing job starts: a directory to scan and a Chunker.
IndexInit ==
    /\ alive = FALSE
    /\ index = None
    /\ metadata = <<>>
    /\ dimension = VECTOR_DIMENSION
    /\ index_file = NoFile
    /\ metadata_file = NoMetaFile
    /\ last = NoCall
    /\ faults = 0
    /\ stage = "parse"
    /\ directory \in Listings
    /\ chunk_size \in ChunkSizeArgs
    /\ chunk_overlap = 0
    /\ units = <<>>
    /\ documents = <<>>
    /\ chunked_documents = <<>>
    /\ logged = <<>>
    /\ NoRetrieval

IndexNext == ParseDirectory \/ EnrichMetadata \/ ChunkDocuments

IndexSpec == IndexInit /\ [][IndexNext]_vars

\* ------------------------------------------------------------ chunking call
\* One call of Chunker.chunk_documents on a list of one unit, for a Chunker
\* constructed with any of the sizes and overlaps below.  The units are what
\* parse_file and enrich_metadata give for: class A of a.py; class K of k.py;
\* a class D with two methods, one holding a nested function; function f of
\* c.py; b.py, which does not parse; a file of prose, which does not parse.
KUnit ==
    [content |-> FileLines("k.py"),
     metadata |-> [file_path |-> "k.py", type |-> "class", name |-> "K",
                   docstring |-> "doc", methods |-> <<"m">>, bases |-> <<"A">>,
                   line_range |-> LineRange(1, 7),
                   complexity |-> [branches |-> 0]]]
DUnit ==
    [content |-> <<"class D:",
                   "    x = 1",
                   "    def m(self):",
                   "        def inner():",
                   "            pass",
                   "        return inner",
                   "    def n(self):",
                   "        pass">>,
     metadata |-> [file_path |-> "m.py", type |-> "class", name |-> "D",
                   docstring |-> "", methods |-> <<"m", "n">>, bases |-> <<>>,
                   line_range |-> LineRange(1, 8),
                   complexity |-> [branches |-> 0]]]
FunctionUnit ==
    [content |-> Slice(FileLines("c.py"), 2, 9),
     metadata |-> [file_path |-> "c.py", type |-> "function", name |-> "f",
                   docstring |-> "", arguments |-> <<"a", "b">>,
                   line_range |-> LineRange(2, 9),
                   imports |-> <<".x", "os.path", "os.sep">>,
                   function_calls |-> <<"g">>,
                   complexity |-> [branches |-> 1]]]
ProseUnit ==
    [content |-> <<"Fix. Do. Go. Now then.", "", "ok", "",
                   "A sentence far too long to fit! x">>,
     metadata |-> [file_path |-> "p.py", type |-> "raw_text"]]
ChunkerUnits == {ClassUnit, KUnit, DUnit, FunctionUnit, RawUnit, ProseUnit}

\* Chunker(chunk_size=..., chunk_overlap=...): None is written 0.
ChunkerSizes == {0, 5, 13, 40, 80, 100}
OverlapArgs == {0, 1, 2}

ChunkerInit ==
    /\ alive = FALSE
    /\ index = None
    /\ metadata = <<>>
    /\ dimension = VECTOR_DIMENSION
    /\ index_file = NoFile
    /\ metadata_file = NoMetaFile
    /\ last = NoCall
    /\ faults = 0
    /\ stage = "chunk"
    /\ directory = <<>>
    /\ chunk_size \in ChunkerSizes
    /\ chunk_overlap \in OverlapArgs
    /\ documents \in {<<unit>> : unit \in ChunkerUnits}
    /\ units = documents
    /\ chunked_documents = <<>>
    /\ logged = <<>>
    /\ NoRetrieval

ChunkerNext == ChunkDocuments

ChunkerSpec == ChunkerInit /\ [][ChunkerNext]_vars

\* ------------------------------------------------------- retrieval call
\* Retriever.retrieve hands the list FaissVectorStore.search returned to
\* _enrich_results. The list is drawn from the lists search can return: hits
\* in faiss's order, nearest first, each with the metadata record of its slot.

\* Metadata records a store can hold: of a class chunk, of a raw-text chunk and
\* of a function chunk as index_codebase adds them, and records of an artifact
\* written elsewhere: one carrying its text, one of a file that is gone, one
\* with a kind only.
FunctionMeta ==
    [file_path |-> "c.py", type |-> "function", name |-> "f", docstring |-> "",
     arguments |-> <<"a", "b">>, line_range |-> [py |-> "list", v |-> <<2, 9>>],
     chunk_index |-> 0, total_chunks |-> 1]
ContentMeta ==
    [content |-> <<"    y = 2">>, file_path |-> "a.py", type |-> "class",
     name |-> "A", line_range |-> [py |-> "list", v |-> <<1, 3>>]]
GoneMeta ==
    [file_path |-> "gone.py", type |-> "class", name |-> "G",
     line_range |-> [py |-> "list", v |-> <<1, 2>>]]
KindOnlyMeta == [type |-> "function"]
Metas ==
    {ChunkDoc(ClassUnit, ClassPieces, 1).metadata,
     ChunkDoc(RawUnit, <<RawUnit.content>>, 0).metadata,
     FunctionMeta, ContentMeta, GoneMeta, KindOnlyMeta}

\* Squared distances a search reports: 0, 0.5, 1.0 and 2.0.
Distances == {[num |-> 0, den |-> 1], [num |-> 1, den |-> 2],
              [num |-> 1, den |-> 1], [num |-> 2, den |-> 1]}
FloatLeq(a, b) == a.num * b.den <= b.num * a.den

HitLists ==
    UNION {{hs \in [1..n -> [metadata : Metas, distance : Distances]] :
               \A i \in 1..(n - 1) : FloatLeq(hs[i].distance, hs[i + 1].distance)} :
           n \in 0..MaxHits}

\* return self._enrich_results(results)
EnrichResults ==
    /\ ~retrieved
    /\ enriched_results' = enrich_results(search_results, files_readable)
    /\ retrieved' = TRUE
    /\ UNCHANGED <<store, job, search_results, files_readable>>

RetrieverInit ==
    /\ alive = FALSE
    /\ index = None
    /\ metadata = <<>>
    /\ dimension = VECTOR_DIMENSION
    /\ index_file = NoFile
    /\ metadata_file = NoMetaFile
    /\ last = NoCall
    /\ faults = 0
    /\ NoJob
    /\ search_results \in HitLists
    /\ files_readable \in BOOLEAN
    /\ enriched_results = <<>>
    /\ retrieved = FALSE

RetrieverNext == EnrichResults

RetrieverSpec == RetrieverInit /\ [][RetrieverNext]_vars

\* ================================================================== claims
Min(a, b) == IF a < b THEN a ELSE b
Ks == (1..MaxK) \cup {TOP_K}

\* The chunk a metadata record was made for: the file and the chunk index name it.
ChunkOf(md) ==
    CHOOSE doc \in Docs : /\ doc.metadata.file_path = md.file_path
                          /\ doc.metadata.chunk_index = md.chunk_index

\* C1: at all times the number of metadata records equals the number of
\* vectors held by the index, also after an add call that failed.
C1_CountsAgree == alive => Len(metadata) = ntotal(index)

\* C2: an add whose vectors are not of the index's fixed dimension fails and
\* appends neither a metadata record nor a vector.
C2_FailedAddAppendsNothing ==
    [][(last'.op = "add" /\ last'.outcome = "raised")
          => (Len(metadata') = Len(metadata) /\ ntotal(index') = ntotal(index))]_vars

\* C3: a load that fails leaves the in-memory vectors, metadata and dimension
\* exactly as they were before the call.
C3_FailedLoadChangesNothing ==
    [][(last'.op = "load" /\ last'.outcome # "ok")
          => UNCHANGED <<index, metadata, dimension>>]_vars

\* What a freshly constructed store holds after loading the two artifacts.
Reloaded == load(None, <<>>, index_file, metadata_file, "IOError")

\* Both artifacts were just written by a save that did not fail.
JustSaved ==
    /\ alive
    /\ \/ last.op = "save" /\ last.outcome = "ok"
       \/ last.op = "add" /\ last.applied /\ ~last.save_failed

\* C4 as stated: after save() and load() into a fresh index, every search
\* returns what it returned before the save: same metadata, same distances,
\* same order.
C4_RoundTripIdentical ==
    JustSaved =>
        \A q \in QueryVecs, k \in Ks :
            search(Reloaded.index, Reloaded.metadata, q, k)
                = search(index, metadata, q, k)

\* A search result as it reads once its metadata went through json.dump and
\* json.load.
ThroughJson(results) ==
    [i \in 1..Len(results) |->
        [metadata |-> JsonLoad(JsonDump(<<results[i].metadata>>))[1],
         distance |-> results[i].distance]]

\* C4 amended: after save() and load() into a fresh index, every search returns
\* the same hits in the same order with the same distances, and each hit's
\* metadata is the saved metadata as JSON reads it back (a tuple is a list).
C4_RoundTripUpToJson ==
    JustSaved =>
        /\ Reloaded.outcome = "ok"
        /\ \A q \in QueryVecs, k \in Ks :
              search(Reloaded.index, Reloaded.metadata, q, k)
                  = ThroughJson(search(index, metadata, q, k))

C4_Witness ==
    /\ JustSaved /\ last.op = "save"
    /\ ntotal(index) = 2 /\ Len(metadata) = 2
    /\ \E i \in 1..2 : /\ "line_range" \in DOMAIN metadata[i]
                        /\ metadata[i].line_range.py = "tuple"
    /\ index.vecs[1] # index.vecs[2]

\* C5: with the source files unchanged, the content retrieve returns for a hit
\* is the text of the chunk that was added at the hit's slot.
C5_RetrieveReturnsChunkText ==
    alive =>
        \A q \in QueryVecs, k \in Ks :
            LET rs == enrich_results(search(index, metadata, q, k), TRUE) IN
            \A i \in 1..Len(rs) : rs[i].content = ChunkOf(rs[i].metadata).content

\* C6: search(q, k) with k >= 1 on n vectors returns exactly min(k, n) results.
C6_SearchReturnsMinKN ==
    alive =>
        \A q \in QueryVecs, k \in Ks :
            Len(search(index, metadata, q, k)) = Min(k, ntotal(index))

\* C7: after any sequence of adds, slot i's metadata and slot i's vector come
\* from the same chunk.
C7_SlotsPairMetadataAndVector ==
    (alive /\ last.op = "add") =>
        \A i \in 1..ntotal(index) :
            /\ i <= Len(metadata)
            /\ index.vecs[i] = Embed(ChunkOf(metadata[i]).content)

\* C8: a load that succeeds has read two artifacts with the same number of
\* slots.
C8_LoadRequiresEqualCounts ==
    (last.op = "load" /\ last.outcome = "ok") => Len(metadata) = ntotal(index)

\* The last m elements of a sequence.
LastN(s, m) == SubSeq(s, Len(s) - m + 1, Len(s))

\* C9: an add that succeeded in memory has saved both artifacts before it
\* returns; if that save failed, the failure was logged, add returned without
\* raising, and the added metadata and vectors are still in memory.
C9_AddSavesAndKeepsOnFailure ==
    (last.op = "add" /\ last.applied) =>
        /\ last.outcome = "ok"
        /\ LastN(metadata, Len(last.docs)) = DocMetadata(last.docs)
        /\ LastN(index.vecs, Len(last.docs))
              = generate_embeddings(DocContents(last.docs))
        /\ ~last.save_failed =>
              /\ index_file = WriteIndex(index)
              /\ metadata_file = WriteMetadata(metadata)
        /\ last.save_failed => last.error_logged

C9_Witness ==
    /\ last.op = "add" /\ last.applied /\ last.save_failed
    /\ ntotal(index) = 2
    /\ index_file.state = "ok" /\ Len(index_file.vecs) < 2

\* C10: the lifecycle Uninitialized -> Empty -> Populated.  A store constructed
\* with no persisted artifact is Empty; an add on an Uninitialized store fixes
\* the dimension to that of its vectors; an add that goes through moves Empty
\* to Populated; no add, save, search or retrieve takes a vector away, unsets
\* the index or changes a fixed dimension.
C10_Lifecycle ==
    [][/\ (~alive /\ alive' /\ index_file.state = "absent"
              /\ metadata_file.state = "absent")
          => (~index'.none /\ ntotal(index') = 0 /\ metadata' = <<>>
              /\ index'.d = VECTOR_DIMENSION)
       /\ (alive /\ index.none /\ last'.op = "add")
          => (~index'.none /\ index'.d = last'.d /\ dimension' = last'.d)
       /\ (alive /\ ~index.none /\ ntotal(index) = 0 /\ last'.op = "add"
              /\ last'.outcome = "ok")
          => ntotal(index') >= 1
       /\ (alive /\ ~index.none /\ last'.op \in {"add", "save", "search", "retrieve"})
          => (~index'.none /\ index'.d = index.d
              /\ ntotal(index') >= ntotal(index))]_vars

C10_Witness ==
    /\ alive /\ last.op = "add" /\ last.outcome = "ok"
    /\ dimension = OtherDimension /\ index.d = OtherDimension
    /\ ntotal(index) >= 1

\* ------------------------------------------------ claims on the indexing job
Parsed == stage \in {"enrich", "chunk", "embed"}
Enriched == stage \in {"chunk", "embed"}
Chunked == stage = "embed"

\* chunked_documents cut into runs, the length of a run being the
\* total_chunks its first chunk is stamped with.
RECURSIVE Groups(_)
Groups(chunks) ==
    IF chunks = <<>> THEN <<>>
    ELSE LET t == Head(chunks).metadata.total_chunks
             n == IF t < 1 \/ t > Len(chunks) THEN Len(chunks) ELSE t
         IN <<SubSeq(chunks, 1, n)>> \o Groups(SubSeq(chunks, n + 1, Len(chunks)))

\* The chunks of documents[d]: the d-th run.
UnitChunks(d) ==
    IF d <= Len(Groups(chunked_documents)) THEN Groups(chunked_documents)[d] ELSE <<>>

\* C11: a unit of any kind whose text is at most max_size characters long is
\* returned as exactly one chunk: the unit's text, chunk_index 0, chunk count 1.
C11_SmallUnitIsOneChunk ==
    Chunked =>
        \A d \in 1..Len(documents) :
            TextLen(documents[d].content) <= ChunkerSize(chunk_size) =>
                /\ Len(UnitChunks(d)) = 1
                /\ UnitChunks(d)[1].content = documents[d].content
                /\ UnitChunks(d)[1].metadata.chunk_index = 0
                /\ UnitChunks(d)[1].metadata.total_chunks = 1

Kinds(docs) == {docs[d].metadata.type : d \in 1..Len(docs)}

C11_Witness ==
    /\ Chunked
    /\ Kinds(documents) = {"class", "function", "raw_text"}
    /\ \A d \in 1..Len(documents) :
          TextLen(documents[d].content) <= ChunkerSize(chunk_size)
    /\ \E d \in 1..Len(documents) : Len(documents[d].content) > 1
    /\ Len(chunked_documents) = Len(documents)

\* The lines of a unit that come before its c-th chunk.
RECURSIVE LinesBefore(_, _)
LinesBefore(chunks, c) ==
    IF c <= 1 THEN 0 ELSE Len(chunks[c - 1].content) + LinesBefore(chunks, c - 1)

\* Line j of the unit lies in chunk c.
InChunk(chunks, c, j) ==
    LinesBefore(chunks, c) < j /\ j <= LinesBefore(chunks, c) + Len(chunks[c].content)

IsDecorator(line) == StartsWith(lstrip(line), "@")
IsDefinition(line) ==
    StartsWith(lstrip(line), "def ") \/ StartsWith(lstrip(line), "class ")

\* C12: in a Class unit that was split, every decorator line is the first line
\* of its chunk, and the def/class line right after it is in that same chunk.
C12_DecoratorStartsChunkOfItsDef ==
    Chunked =>
        \A d \in 1..Len(documents) :
            (documents[d].metadata.type = "class" /\ Len(UnitChunks(d)) > 1) =>
                \A j \in 1..Len(documents[d].content) :
                    IsDecorator(documents[d].content[j]) =>
                        \E c \in 1..Len(UnitChunks(d)) :
                            /\ InChunk(UnitChunks(d), c, j)
                            /\ j = LinesBefore(UnitChunks(d), c) + 1
                            /\ (j < Len(documents[d].content)
                                   /\ IsDefinition(documents[d].content[j + 1]))
                                  => InChunk(UnitChunks(d), c, j + 1)

\* C13: every unit gives at least one chunk; its n chunks carry chunk_index
\* 0..n-1 in order and all the chunk count n; each carries every metadata
\* field of the unit with the unit's value.
C13_ChunksAreStamped ==
    Chunked =>
        /\ Len(Groups(chunked_documents)) = Len(documents)
        /\ \A d \in 1..Len(documents) :
              /\ Len(UnitChunks(d)) >= 1
              /\ \A i \in 1..Len(UnitChunks(d)) :
                    LET md == UnitChunks(d)[i].metadata IN
                    /\ md.chunk_index = i - 1
                    /\ md.total_chunks = Len(UnitChunks(d))
                    /\ md.chunk_index < md.total_chunks
                    /\ \A k \in DOMAIN documents[d].metadata :
                          k \in DOMAIN md /\ md[k] = documents[d].metadata[k]

C13_Witness ==
    /\ Chunked
    /\ \E d \in 1..Len(documents) :
          /\ Len(UnitChunks(d)) >= 3
          /\ "imports" \in DOMAIN UnitChunks(d)[3].metadata
    /\ \E d \in 1..Len(documents) :
          Len(UnitChunks(d)) = 1 /\ documents[d].metadata.type = "raw_text"

\* The entries of the listing that parse_directory hands to parse_file.
Scanned == {PathJoin(directory[i].root, directory[i].file) :
               i \in {i \in 1..Len(directory) :
                         /\ ~InVirtualEnv(directory[i].root)
                         /\ EndsWith(directory[i].file, ".py")}}

\* The documents that came from one file.
FromFile(docs, file_path) ==
    SelectSeq(docs, LAMBDA doc : doc.metadata.file_path = file_path)

\* A file that can be read and whose structural parse fails.
ParseFails(file_path) ==
    ~Undecodable(file_path) /\ ast_parse(FileLines(file_path)).raised

\* C14: a file whose structural parse fails gives exactly one unit, of kind
\* RawText, whose text is the whole file and whose line range runs from line 1
\* to the last line of the file.
C14_ParseFailureGivesWholeFileUnit ==
    Parsed =>
        \A p \in Scanned :
            ParseFails(p) =>
                LET emitted == FromFile(documents, p) IN
                /\ Len(emitted) = 1
                /\ emitted[1].metadata.type = "raw_text"
                /\ emitted[1].content = FileLines(p)
                /\ "line_range" \in DOMAIN emitted[1].metadata
                /\ emitted[1].metadata.line_range.v = <<1, Len(FileLines(p))>>

\* ast.walk with, for each node, whether it lies inside a class or a function.
RECURSIVE ScopedQueue(_)
ScopedQueue(todo) ==
    IF todo = <<>> THEN <<>>
    ELSE LET e == Head(todo) IN
         <<e>> \o ScopedQueue(Tail(todo) \o
                     [i \in 1..Len(e.node.children) |->
                         [node |-> e.node.children[i],
                          nested |-> e.nested \/ e.node.type \in DefTypes]])

\* The definitions of a tree that have a unit of their own by the claim: every
\* class, and every function that is not inside a class or a function.
OwnUnit(tree) ==
    LET es == ScopedQueue(<<[node |-> tree, nested |-> FALSE]>>) IN
    {[type |-> IF es[i].node.type = "ClassDef" THEN "class" ELSE "function",
      name |-> es[i].node.name, start_line |-> es[i].node.lineno] :
        i \in {i \in 1..Len(es) :
                  \/ es[i].node.type = "ClassDef"
                  \/ es[i].node.type = "FunctionDef" /\ ~es[i].nested}}

\* C15: a file that parses gives exactly one unit per class definition at any
\* depth and one per function definition that is not nested inside a class or
\* another function, and no other unit.
C15_OneUnitPerClassAndOuterFunction ==
    Parsed =>
        \A p \in Scanned :
            (~Undecodable(p) /\ ~ast_parse(FileLines(p)).raised) =>
                LET emitted == FromFile(documents, p) IN
                /\ {[type |-> emitted[i].metadata.type, name |-> emitted[i].metadata.name,
                     start_line |-> emitted[i].metadata.line_range.v[1]] :
                        i \in 1..Len(emitted)} = OwnUnit(FileTree(p))
                /\ Len(emitted) = Cardinality(OwnUnit(FileTree(p)))

\* The keys the enricher adds.
Derived == {"imports", "function_calls", "complexity"}
AsSegmented(doc) ==
    [doc EXCEPT !.metadata = [k \in DOMAIN doc.metadata \ Derived |-> doc.metadata[k]]]

\* C16: in a batch, a failure on one file or unit touches that item only.
\* Every scanned file whose parse_file does not raise has all its units in the
\* documents, the files that raised are the ones logged, a unit that does not
\* re-parse leaves the units around it enriched, and every unit is chunked.
C16_FailureStaysWithItsItem ==
    /\ Parsed =>
          /\ \A p \in Scanned :
                ~parse_file(p).raised =>
                    [i \in 1..Len(FromFile(documents, p)) |->
                        AsSegmented(FromFile(documents, p)[i])]
                      = parse_file(p).documents
          /\ {logged[i] : i \in 1..Len(logged)}
                = {p \in Scanned : parse_file(p).raised}
    /\ Enriched =>
          \A d \in 1..Len(documents) :
              (/\ documents[d].metadata.type \in {"class", "function"}
               /\ ~ast_parse(documents[d].content).raised)
                  => "complexity" \in DOMAIN documents[d].metadata
    /\ Chunked =>
          \A d \in 1..Len(documents) : Len(UnitChunks(d)) >= 1

C16_Witness ==
    /\ Chunked
    /\ Len(directory) = 3
    /\ parse_file(PathJoin(directory[1].root, directory[1].file)).raised
    /\ logged # <<>>
    /\ \E d, e \in 1..Len(documents) :
          /\ d < e
          /\ documents[d].metadata.type = "class"
          /\ ast_parse(documents[d].content).raised
          /\ "complexity" \in DOMAIN documents[e].metadata

\* The imports of a tree as the claim lists them: `import a.b` gives a.b,
\* `from m import n` gives m.n, `from . import n` gives n.
ClaimedImports(tree) ==
    LET nodes == [i \in 1..Len(walk(tree)) |-> walk(tree)[i].node] IN
    Flatten([i \in 1..Len(nodes) |->
        CASE nodes[i].type = "Import" -> nodes[i].names
          [] nodes[i].type = "ImportFrom" ->
                [j \in 1..Len(nodes[i].names) |->
                    IF nodes[i].module.none THEN nodes[i].names[j]
                    ELSE nodes[i].module.name \o "." \o nodes[i].names[j]]
          [] OTHER -> <<>>])

\* C20: for a Class or Function unit that re-parses, imports lists every
\* imported name: module.name for a from-import with a module, the bare name
\* for a from-import without one, the dotted name for a plain import.
C20_ImportsAreQualifiedNames ==
    Enriched =>
        \A d \in 1..Len(documents) :
            (/\ documents[d].metadata.type \in {"class", "function"}
             /\ ~ast_parse(documents[d].content).raised)
                => Get(documents[d].metadata, "imports", <<>>)
                      = ClaimedImports(ast_parse(documents[d].content).tree)

\* ------------------------------------------------ claims on the retriever
\* How often a hit occurs in a list of hits or results.
Occurs(rs, md, distance) ==
    Cardinality({i \in 1..Len(rs) : rs[i].metadata = md /\ rs[i].distance = distance})

FloatLess(a, b) == a.num * b.den < b.num * a.den

\* C17: retrieve returns exactly one result per hit of the search, ordered by
\* non-increasing relevance score, so that a hit with a smaller distance never
\* comes after a hit with a larger distance.
C17_OneResultPerHitBestFirst ==
    retrieved =>
        /\ Len(enriched_results) = Len(search_results)
        /\ \A h \in 1..Len(search_results) :
              Occurs(enriched_results, search_results[h].metadata,
                     search_results[h].distance)
                = Occurs(search_results, search_results[h].metadata,
                         search_results[h].distance)
        /\ \A i, j \in 1..Len(enriched_results) :
              i < j =>
                  /\ ~FloatLess(enriched_results[i].relevance_score,
                                enriched_results[j].relevance_score)
                  /\ ~FloatLess(enriched_results[j].distance,
                                enriched_results[i].distance)

C17_Witness ==
    /\ retrieved
    /\ Len(enriched_results) = 2
    /\ enriched_results[1].distance = [num |-> 1, den |-> 2]
    /\ enriched_results[2].distance = [num |-> 2, den |-> 1]
    /\ enriched_results[1].metadata # enriched_results[2].metadata

CanReread(md) ==
    /\ "line_range" \in DOMAIN md
    /\ files_readable
    /\ "file_path" \in DOMAIN md
    /\ FileLines(md.file_path) # <<>>

C21_UnitsAreImmutable ==
    [][(stage \in {"enrich", "chunk"}) => (units' = units)]_vars

SplitByStructure(doc) ==
    /\ doc.metadata.type \in {"class", "function"}
    /\ TextLen(doc.content) > ChunkerSize(chunk_size)
    /\ doc.metadata.type = "function"
          => TextLen(doc.content) > 2 * ChunkerSize(chunk_size)

Indent(line) == Len(line) - Len(lstrip(line))

\* The indentation of the first non-blank line of a text.
BaseIndent(content) ==
    LET first == CHOOSE j \in 1..Len(content) :
                    /\ lstrip(content[j]) # ""
                    /\ \A k \in 1..(j - 1) : lstrip(content[k]) = ""
    IN Indent(content[first])

\* Line j of the unit is the first line of one of its chunks.
StartsChunk(chunks, j) ==
    \E c \in 1..Len(chunks) : j = LinesBefore(chunks, c) + 1

\* What current_size has counted for a chunk: its characters and one newline
\* per line.
AccumulatedSize(lines) == TextLen(lines) + 1

\* The chunk that ends right before line j.
ChunkBefore(chunks, j) ==
    chunks[CHOOSE c \in 1..Len(chunks) :
              LinesBefore(chunks, c) + Len(chunks[c].content) = j - 1]

\* C23: in boundary-aware splitting a new chunk starts right before every
\* def/class line indented one level (four spaces) deeper than the unit's
\* first non-blank line, whenever the current chunk is non-empty; a def/class
\* line nested more deeply forces no boundary (it starts a chunk only when the
\* size test cuts there).
C23_BoundaryBeforeDirectMembers ==
    Chunked =>
        \A d \in 1..Len(documents) :
            SplitByStructure(documents[d]) =>
                LET content == documents[d].content
                    chunks == UnitChunks(d)
                IN \A j \in 2..Len(content) :
                      IsDefinition(content[j]) =>
                          /\ Indent(content[j]) = BaseIndent(content) + 4
                                => StartsChunk(chunks, j)
                          /\ (/\ Indent(content[j]) > BaseIndent(content) + 4
                              /\ StartsChunk(chunks, j))
                                => 2 * (AccumulatedSize(ChunkBefore(chunks, j).content)
                                          + Len(content[j]) + 1)
                                      > 3 * ChunkerSize(chunk_size)

\* C26: every chunk of a raw-text unit longer than max_size is at most
\* max_size characters long.
C26_RawTextChunksWithinMaxSize ==
    Chunked =>
        \A d \in 1..Len(documents) :
            (/\ documents[d].metadata.type \notin {"class", "function"}
             /\ TextLen(documents[d].content) > ChunkerSize(chunk_size)) =>
                \A c \in 1..Len(UnitChunks(d)) :
                    TextLen(UnitChunks(d)[c].content) <= ChunkerSize(chunk_size)

\* The state of the line loop of _chunk_code when it ends.
LoopEnd(content) ==
    CodeLoop([chunks |-> <<>>, current_chunk |-> <<>>, current_size |-> 0,
              indent_level |-> NoIndent], content, ChunkerSize(chunk_size))

\* C27: boundary-aware splitting cuts between lines only: the chunks, joined
\* in index order with a newline, are the unit's text, every line being in
\* exactly one chunk and in the original order; there is at least one chunk,
\* so the fixed-size fallback is never taken.
C27_ChunksPartitionTheLines ==
    Chunked =>
        \A d \in 1..Len(documents) :
            SplitByStructure(documents[d]) =>
                LET chunks == UnitChunks(d) IN
                /\ Len(chunks) >= 1
                /\ \A c \in 1..Len(chunks) : Len(chunks[c].content) >= 1
                /\ JoinWith([c \in 1..Len(chunks) |-> TextOf(chunks[c].content)], "\n")
                      = TextOf(documents[d].content)
                /\ Flatten([c \in 1..Len(chunks) |-> chunks[c].content])
                      = documents[d].content
                /\ LoopEnd(documents[d].content).chunks # <<>>
                      \/ LoopEnd(documents[d].content).current_chunk # <<>>

C27_Witness ==
    /\ Chunked
    /\ documents = <<DUnit>>
    /\ ChunkerSize(chunk_size) = 40
    /\ Len(chunked_documents) = 3
    /\ Len(chunked_documents[1].content) = 4
    /\ Len(chunked_documents[3].content) = 1

\* C28: in boundary-aware splitting every chunk of more than one line has an
\* accumulated size of at most 1.5 x max_size.
C28_MultiLineChunksWithinAllowance ==
    Chunked =>
        \A d \in 1..Len(documents) :
            SplitByStructure(documents[d]) =>
                \A c \in 1..Len(UnitChunks(d)) :
                    Len(UnitChunks(d)[c].content) > 1 =>
                        2 * AccumulatedSize(UnitChunks(d)[c].content)
                            <= 3 * ChunkerSize(chunk_size)

C28_Witness ==
    /\ Chunked
    /\ documents = <<KUnit>>
    /\ ChunkerSize(chunk_size) = 40
    /\ Len(chunked_documents) = 2
    /\ Len(chunked_documents[1].content) = 4
    /\ AccumulatedSize(chunked_documents[1].content) > 40
    /\ AccumulatedSize(chunked_documents[1].content) <= 60

\* What boundary-aware splitting makes of a text.
BoundaryAware(content) ==
    IF LoopEnd(content).current_chunk # <<>>
    THEN Append(LoopEnd(content).chunks, LoopEnd(content).current_chunk)
    ELSE LoopEnd(content).chunks

\* The texts of the chunks of documents[d].
ChunkTexts(d) == [c \in 1..Len(UnitChunks(d)) |-> UnitChunks(d)[c].content]

\* C29: a Function unit longer than max_size and at most 2 x max_size is one
\* chunk, its text; a Class unit longer than max_size, and a Function unit
\* longer than 2 x max_size, are cut by boundary-aware splitting.
C29_FunctionsGetDoubleAllowance ==
    Chunked =>
        \A d \in 1..Len(documents) :
            LET doc == documents[d]
                size == ChunkerSize(chunk_size)
            IN /\ (/\ doc.metadata.type = "function"
                   /\ TextLen(doc.content) > size
                   /\ TextLen(doc.content) <= 2 * size)
                     => ChunkTexts(d) = <<doc.content>>
               /\ (/\ doc.metadata.type = "function"
                   /\ TextLen(doc.content) > 2 * size)
                     => ChunkTexts(d) = BoundaryAware(doc.content)
               /\ (/\ doc.metadata.type = "class"
                   /\ TextLen(doc.content) > size)
                     => ChunkTexts(d) = BoundaryAware(doc.content)

C29_Witness ==
    /\ Chunked
    /\ documents = <<FunctionUnit>>
    /\ ChunkerSize(chunk_size) = 80
    /\ TextLen(FunctionUnit.content) > 80
    /\ Len(chunked_documents) = 1
    /\ Len(BoundaryAware(FunctionUnit.content)) > 1

\* ------------------------------------------------- further claims on the store
\* C24: the two persisted artifacts never disagree: whenever both are there,
\* also after a save that failed between the two writes, they hold the same
\* number of slots, slot i of the one being slot i of the other.
C24_ArtifactsAgree ==
    (index_file.state = "ok" /\ metadata_file.state = "ok") =>
        /\ Len(index_file.vecs) = Len(metadata_file.recs)
        /\ \A i \in 1..Len(index_file.vecs) :
              index_file.vecs[i]
                  = Embed(ChunkOf(JsonLoad(metadata_file.recs)[i]).content)

\* C25: a store constructed while both artifacts exist, whose load fails, ends
\* as a fresh Empty store: an index of the configured dimension with no vector
\* and no metadata; never without an index, never holding one artifact only.
C25_FailedLoadFallsBackToEmpty ==
    [][(/\ ~alive
        /\ BothExist
        /\ last'.op = "init"
        /\ last'.error_logged \/ last'.outcome = "raised")
          => (/\ alive'
              /\ ~index'.none
              /\ index'.d = VECTOR_DIMENSION
              /\ ntotal(index') = 0
              /\ metadata' = <<>>)]_vars

\* C30: search and save are read-only on memory: neither changes the index,
\* the metadata or the dimension, so every search returns afterwards what it
\* returned before; a save right after a save, neither failing, leaves both
\* artifacts as the first one wrote them.
C30_SearchAndSaveReadOnly ==
    [][/\ (last'.op \in {"search", "save"})
             => /\ UNCHANGED <<index, metadata, dimension>>
                /\ \A q \in QueryVecs, k \in Ks :
                      search(index', metadata', q, k) = search(index, metadata, q, k)
       /\ (/\ last.op = "save" /\ last.outcome = "ok"
           /\ last'.op = "save" /\ last'.outcome = "ok")
             => UNCHANGED <<index_file, metadata_file>>]_vars

C30_Witness ==
    /\ alive
    /\ last.op = "save" /\ last.outcome = "ok"
    /\ ntotal(index) = 2
    /\ Len(metadata) = 2
    /\ index_file = WriteIndex(index)
    /\ metadata_file = WriteMetadata(metadata)

====
